---- MODULE Spec2Model ----
(***************************************************************************)
(* GitPut (src/gitput.py): an interactive assistant that caches GitHub     *)
(* credentials in a JSON file and drives git through a menu.               *)
(*                                                                         *)
(* Text is modelled as sequences of one-character strings, so that JSON    *)
(* encoding/decoding, str.strip() and the substring test of add_remote are *)
(* computed, not assumed.  A file that does not exist is NoFile; Python's  *)
(* None is None.  A dict is the sequence of its <<key, value>> items in    *)
(* insertion order.                                                        *)
(***************************************************************************)
EXTENDS Integers, Sequences, FiniteSets, TLC

\* ------------------------------------------------------------------ bounds
\* Longest run of double quotes typed as e-mail at the prompt.
MaxEmailLen == 1

\* ------------------------------------------------------------------ text
QUOTE == "\""
BSLASH == "\\"
SPACE == " "
TAB == "\t"
NL == "\n"

K_username == <<"u","s","e","r","n","a","m","e">>
K_email == <<"e","m","a","i","l">>
K_token == <<"t","o","k","e","n">>

ORIGIN == <<"o","r","i","g","i","n">>
UPSTREAM == <<"u","p","s","t","r","e","a","m">>
FETCH_TAG == <<" ","(","f","e","t","c","h",")">>
PUSH_TAG == <<" ","(","p","u","s","h",")">>
GITHUB_PREFIX == <<"h","t","t","p","s",":","/","/","g","i","t","h","u","b",".","c","o","m","/">>
GIT_SUFFIX == <<".","g","i","t">>

None == <<>>
NoFile == <<>>

\* Python truthiness of "creds" (None and the empty dict are both falsy).
Truthy(v) == v # <<>>

\* d[k] for a dict d; the last item with that key wins.
RECURSIVE DictGet(_, _)
DictGet(d, k) ==
    IF d[Len(d)][1] = k THEN d[Len(d)][2] ELSE DictGet(SubSeq(d, 1, Len(d) - 1), k)

\* d[k] = v on a dict: replace in place if the key is there, else append.
DictSet(d, k, v) ==
    IF \E i \in 1..Len(d) : d[i][1] = k
    THEN [i \in 1..Len(d) |-> IF d[i][1] = k THEN <<k, v>> ELSE d[i]]
    ELSE Append(d, <<k, v>>)

IsSpace(c) == c \in {SPACE, TAB, NL}

\* str.strip()
RECURSIVE LStrip(_)
LStrip(s) == IF s # <<>> /\ IsSpace(Head(s)) THEN LStrip(Tail(s)) ELSE s
RECURSIVE RStrip(_)
RStrip(s) == IF s # <<>> /\ IsSpace(s[Len(s)]) THEN RStrip(SubSeq(s, 1, Len(s) - 1)) ELSE s
Strip(s) == RStrip(LStrip(s))

\* "sub in s" on Python strings
Contains(sub, s) == \E i \in 1..(Len(s) - Len(sub) + 1) : SubSeq(s, i, i + Len(sub) - 1) = sub

\* ------------------------------------------------------------------ JSON
\* json.dump of a str: quote and backslash are escaped with a backslash.
RECURSIVE JsonEscape(_)
JsonEscape(s) ==
    IF s = <<>> THEN <<>>
    ELSE (IF Head(s) \in {QUOTE, BSLASH} THEN <<BSLASH, Head(s)>> ELSE <<Head(s)>>)
         \o JsonEscape(Tail(s))

JsonStr(s) == <<QUOTE>> \o JsonEscape(s) \o <<QUOTE>>

\* json.dump of a dict of str -> str, default separators ", " and ": ".
RECURSIVE JsonItems(_)
JsonItems(d) ==
    IF d = <<>> THEN <<>>
    ELSE JsonStr(d[1][1]) \o <<":", SPACE>> \o JsonStr(d[1][2])
         \o (IF Len(d) > 1 THEN <<",", SPACE>> ELSE <<>>) \o JsonItems(Tail(d))
JsonDump(d) == <<"{">> \o JsonItems(d) \o <<"}">>

\* json.load: a scanner over the text.  ScanString starts after the opening
\* quote and yields <<decoded string, index after the closing quote>>.
RECURSIVE SkipWs(_, _)
SkipWs(s, i) == IF i <= Len(s) /\ IsSpace(s[i]) THEN SkipWs(s, i + 1) ELSE i

RECURSIVE ScanString(_, _, _)
ScanString(s, i, acc) ==
    IF s[i] = QUOTE THEN <<acc, i + 1>>
    ELSE IF s[i] = BSLASH THEN ScanString(s, i + 2, Append(acc, s[i + 1]))
    ELSE ScanString(s, i + 1, Append(acc, s[i]))

RECURSIVE ScanMembers(_, _, _)
ScanMembers(s, i, acc) ==
    LET key == ScanString(s, i + 1, <<>>)
        colon == SkipWs(s, key[2])
        val == ScanString(s, SkipWs(s, colon + 1) + 1, <<>>)
        after == SkipWs(s, val[2])
        dict == DictSet(acc, key[1], val[1])
    IN  IF s[after] = "," THEN ScanMembers(s, SkipWs(s, after + 1), dict) ELSE dict

JsonLoad(s) ==
    LET first == SkipWs(s, SkipWs(s, 1) + 1)
    IN  IF s[first] = "}" THEN <<>> ELSE ScanMembers(s, first, <<>>)

\* ------------------------------------------------------------------ shell
\* The word /bin/sh builds from "<s>" (an f-string wrapped in double quotes,
\* run with shell=True).  ShError when the quoting does not terminate, in
\* which case the command is not run.
ShError == <<"sh: syntax error">>

RECURSIVE ShWord(_, _, _, _)
ShWord(t, i, inDq, acc) ==
    IF i > Len(t) THEN (IF inDq THEN ShError ELSE <<acc>>)
    ELSE IF inDq
    THEN IF t[i] = QUOTE THEN ShWord(t, i + 1, FALSE, acc)
         ELSE IF t[i] = BSLASH
         THEN IF i = Len(t) THEN ShError
              ELSE IF t[i + 1] \in {QUOTE, BSLASH}
              THEN ShWord(t, i + 2, TRUE, Append(acc, t[i + 1]))
              ELSE ShWord(t, i + 2, TRUE, acc \o <<BSLASH, t[i + 1]>>)
         ELSE ShWord(t, i + 1, TRUE, Append(acc, t[i]))
    ELSE IF t[i] = QUOTE THEN ShWord(t, i + 1, TRUE, acc)
         ELSE IF t[i] = BSLASH
         THEN IF i = Len(t) THEN <<Append(acc, BSLASH)>>
              ELSE ShWord(t, i + 2, FALSE, Append(acc, t[i + 1]))
         ELSE ShWord(t, i + 1, FALSE, Append(acc, t[i]))

\* subprocess.run(f'git config --global <key> "{value}"', shell=True): the
\* return code is ignored, so a command the shell rejects changes nothing.
GitConfigGlobal(old, value) ==
    LET w == ShWord(<<QUOTE>> \o value \o <<QUOTE>>, 1, FALSE, <<>>)
    IN  IF w = ShError THEN old ELSE w[1]
\* The command is run, and so ~/.gitconfig is written.
GitConfigRuns(value) == ShWord(<<QUOTE>> \o value \o <<QUOTE>>, 1, FALSE, <<>>) # ShError

\* ------------------------------------------------------------------ inputs
Alphabet == {QUOTE}

RECURSIVE StringsUpTo(_)
StringsUpTo(n) ==
    IF n = 0 THEN {<<>>}
    ELSE LET shorter == StringsUpTo(n - 1)
         IN  shorter \cup {Append(s, c) : s \in {t \in shorter : Len(t) = n - 1}, c \in Alphabet}

\* The e-mail answers: nothing, double quotes, a backslash.
Emails == StringsUpTo(MaxEmailLen) \cup {<<BSLASH>>}
TypedUsernames == {<<"a">>}
TOKEN_OK == <<"t">>
TOKEN_BAD == <<"x">>
Tokens == {<<>>, TOKEN_OK, TOKEN_BAD}
LOGIN == <<"a", "2">>
RepoNames == {<<"d">>}
ExistingUrls == {<<"u">>}
\* What the user types in another terminal: git remote add origin v,
\* git remote add upstream origin (a relative path as URL).
OtherUrl(name) == IF name = ORIGIN THEN <<"v">> ELSE ORIGIN

\* The service's view of tokens: the login a token authenticates, or <<>>
\* when the token is rejected (HTTP 401).
GitHubLoginOf(token) == IF token = TOKEN_OK THEN LOGIN ELSE <<>>

\* Credential records found on disk when the session starts (written by an
\* earlier session).
Cred(u, e, t) == << <<K_username, u>>, <<K_email, e>>, <<K_token, t>> >>
STORED_LOCAL == Cred(LOGIN, <<"e">>, TOKEN_OK)
STORED_GLOBAL == Cred(<<"b">>, <<"e", QUOTE>>, TOKEN_BAD)

\* ------------------------------------------------------------------ state
VARIABLES
    pc,                 \* position of conversational_workflow
    localFile,          \* text of LOCAL_CONFIG, or NoFile
    globalFile,         \* text of GLOBAL_CONFIG, or NoFile
    creds,              \* the local variable creds of conversational_workflow
    config_file,        \* scope save_credentials chose: "none", "local", "global"
    gitIdentity,        \* <<user.name, user.email>> of the global git config
    repo,               \* the working directory as git sees it
    actions,            \* last result of check_repo_status
    options,            \* the menu built from it
    repo_url,           \* argument of the pending add_remote
    replace,            \* answer to "Want to replace it?": "none", "yes", "no"
    failure,            \* last error the session ended with
    changedSinceInspect,\* history: the repository changed externally since check_repo_status
    untouched           \* history: no remote-tracking history at the start, and no
                        \* external change since

vars == <<pc, localFile, globalFile, creds, config_file, gitIdentity, repo, actions,
          options, repo_url, replace, failure, changedSinceInspect, untouched>>

credVars == <<localFile, globalFile, creds, config_file, gitIdentity>>
menuVars == <<actions, options>>
histVars == <<changedSinceInspect, untouched>>

NoFailure == [step |-> "none", kind |-> "none"]
Fail(step, kind) == [step |-> step, kind |-> kind]

\* ------------------------------------------------------------------ credential store
Exists(file) == file # NoFile

\* Mutation: GLOBAL is looked up first.
load_credentials_GlobalFirst(lf, gf) ==
    IF Exists(gf) THEN JsonLoad(gf)
    ELSE IF Exists(lf) THEN JsonLoad(lf)
    ELSE None

load_credentials(lf, gf) ==
    IF Exists(lf) THEN JsonLoad(lf)
    ELSE IF Exists(gf) THEN JsonLoad(gf)
    ELSE None

\* save_credentials: the files after writing; toLocal is the answer to
\* "Save credentials to this project only?".  LOCAL_CONFIG is
\* <cwd>/.gitput_config.json and GLOBAL_CONFIG is ~/.gitput_config.json:
\* started in the home directory (home) the two paths name one file.
SavedLocal(lf, data, toLocal, home) == IF toLocal \/ home THEN JsonDump(data) ELSE lf
SavedGlobal(gf, data, toLocal, home) == IF toLocal /\ ~home THEN gf ELSE JsonDump(data)

\* ------------------------------------------------------------------ git
RemoteNames == {ORIGIN, UPSTREAM}
NoRemotes == [n \in {} |-> <<>>]
RemoteLine(n, u) ==
    n \o <<TAB>> \o u \o FETCH_TAG \o <<NL>> \o n \o <<TAB>> \o u \o PUSH_TAG \o <<NL>>

\* How a file other than .gitput_config.json stands in HEAD, the index and
\* the work tree, as "git status --porcelain" tells them apart:
\*   P_WORK   index = HEAD, work tree differs   (" M", " D", "??")
\*   P_INDEX  index = work tree, HEAD differs   ("M ", "A ", "D ")
\*   P_BOTH   all three differ                  ("MM", "AM")
\*   P_BACK   index differs, work tree = HEAD   ("MM", "AD")
\* A file that is the same in all three is not listed.
P_WORK == "_M"
P_INDEX == "M_"
P_BOTH == "MM"
P_BACK == "MR"
P_CLEAN == "__"
Patterns == {P_WORK, P_INDEX, P_BOTH, P_BACK}

\* "git add" of a file: the index takes the work tree.
AddedPattern(p) == IF p = P_BACK THEN P_CLEAN ELSE P_INDEX
\* "git commit": HEAD takes the index.
CommittedPattern(p) == IF p = P_INDEX THEN P_CLEAN ELSE P_WORK
AddedFiles(fs) == {AddedPattern(p) : p \in fs} \ {P_CLEAN}
CommittedFiles(fs) == {CommittedPattern(p) : p \in fs} \ {P_CLEAN}
\* Some file of fs differs between index and HEAD.
HasStaged(fs) == fs \cap {P_INDEX, P_BOTH, P_BACK} # {}

\* Where the user's home directory lies: it is the current directory, it is
\* a directory of the work tree above or below the current directory, or it
\* is apart from the work tree.
H_CWD == "cwd"
H_ABOVE == "above"
H_BELOW == "below"
H_APART == "apart"

\* The directory as git sees it:
\*   inGit     inside a repository: a work tree, a bare repository or a
\*             .git directory
\*   isRepo    inside a work tree
\*   remotes   the configured remotes, name -> URL
\*   tracking  the remotes that have refs under refs/remotes/<name>
\*   commits   HEAD has a commit
\*   detached  HEAD is detached: on a commit, on no branch
\*   tracked   text of LOCAL_CONFIG in HEAD, NoFile if not in it
\*   indexed   text of LOCAL_CONFIG in the index
\*   ignored   an ignore rule (.gitignore, .git/info/exclude, the user's
\*             excludes file) covers LOCAL_CONFIG
\*   gTracked, gIndexed, gIgnored
\*             the same for GLOBAL_CONFIG when the home directory is another
\*             directory of the work tree
\*   files     the patterns of the other files in and below the current
\*             directory (outside a work tree: {P_WORK} if there are files)
\*   above     the patterns of the files of the work tree that are not below
\*             the current directory (empty when it is the top level)
\*   home      where the home directory lies
\*   dirty     the work tree differs from HEAD in a file that is not ignored
\*   remoteLog there are commits under refs/remotes
\* The credential files lie in the work tree, so dirty depends on their
\* texts; an ignore rule hides a file as long as it is not in the index.
Shown(inHead, inIndex, ignored, text) ==
    \/ inIndex # inHead
    \/ IF inIndex = NoFile THEN text # NoFile /\ ~ignored ELSE inIndex # text
ConfigShown(r, lf) == Shown(r.tracked, r.indexed, r.ignored, lf)
GlobalShown(r, gf) ==
    r.home \in {H_ABOVE, H_BELOW} /\ Shown(r.gTracked, r.gIndexed, r.gIgnored, gf)
Refresh(r, lf, gf) ==
    [r EXCEPT !.dirty = \/ r.files # {} \/ r.above # {}
                        \/ ConfigShown(r, lf) \/ GlobalShown(r, gf),
              !.remoteLog = r.tracking # {}]

\* "git config --global" writes ~/.gitconfig, a file of the work tree when
\* the home directory is in it; shows says that git status lists the file
\* afterwards (it is neither ignored nor as committed).
HomeConfigWritten(r, shows) ==
    IF ~shows THEN r
    ELSE IF r.home = H_ABOVE THEN [r EXCEPT !.above = r.above \cup {P_WORK}]
    ELSE [r EXCEPT !.files = r.files \cup {P_WORK}]

\* The probes.  "git rev-parse --is-inside-work-tree" exits 0 anywhere in a
\* repository (printing false outside the work tree) and 128 elsewhere;
\* "git status" fails outside a work tree and prints nothing on stdout.
GitRevParseCode(r) == IF r.inGit THEN 0 ELSE 128
GitRemoteV(r) ==
    (IF ORIGIN \in DOMAIN r.remotes THEN RemoteLine(ORIGIN, r.remotes[ORIGIN]) ELSE <<>>)
    \o (IF UPSTREAM \in DOMAIN r.remotes THEN RemoteLine(UPSTREAM, r.remotes[UPSTREAM]) ELSE <<>>)
GitStatusPorcelain(r) ==
    IF r.isRepo /\ r.dirty THEN <<"?", "?", SPACE, "f", NL>> ELSE <<>>
GitLogRemotes(r) ==
    IF r.inGit /\ r.remoteLog THEN <<"c", "1", SPACE, "m", NL>> ELSE <<>>

\* Effects of the commands run through run_cmd: [ok, repo].  envOk is what
\* the command's success depends on outside the model (permissions, hooks,
\* the network); lf is the text of LOCAL_CONFIG in the work tree.
GitInit(r, envOk) ==
    IF envOk THEN [ok |-> TRUE, repo |-> [r EXCEPT !.inGit = TRUE, !.isRepo = TRUE]]
    ELSE [ok |-> FALSE, repo |-> r]
\* "git remote remove origin" deletes refs/remotes/origin/* as well.
GitRemoteRemoveOrigin(r) ==
    IF r.inGit /\ ORIGIN \in DOMAIN r.remotes
    THEN [ok |-> TRUE,
          repo |-> [r EXCEPT !.remotes = [n \in DOMAIN r.remotes \ {ORIGIN} |-> r.remotes[n]],
                             !.tracking = r.tracking \ {ORIGIN},
                             !.remoteLog = (r.tracking \ {ORIGIN}) # {}]]
    ELSE [ok |-> FALSE, repo |-> r]
GitRemoteAddOrigin(r, url) ==
    IF r.inGit /\ ORIGIN \notin DOMAIN r.remotes /\ url # <<>>
    THEN [ok |-> TRUE,
          repo |-> [r EXCEPT !.remotes =
                      [n \in DOMAIN r.remotes \cup {ORIGIN} |->
                          IF n = ORIGIN THEN url ELSE r.remotes[n]]]]
    ELSE [ok |-> FALSE, repo |-> r]
\* "git add .": the index takes the work tree in and below the current
\* directory, ignored files that are not in the index excepted.
AddedText(inIndex, ignored, text) == IF inIndex = NoFile /\ ignored THEN NoFile ELSE text
GitAddAll(r, lf, gf, envOk) ==
    IF r.isRepo /\ envOk
    THEN [ok |-> TRUE,
          repo |-> Refresh([r EXCEPT !.indexed = AddedText(r.indexed, r.ignored, lf),
                                     !.gIndexed = IF r.home = H_BELOW
                                                  THEN AddedText(r.gIndexed, r.gIgnored, gf)
                                                  ELSE r.gIndexed,
                                     !.files = AddedFiles(r.files)], lf, gf)]
    ELSE [ok |-> FALSE, repo |-> r]
\* "git commit -m ...": exits 1 when the index equals HEAD.
GitCommit(r, lf, gf, envOk) ==
    IF /\ r.isRepo
       /\ \/ HasStaged(r.files) \/ HasStaged(r.above)
          \/ r.indexed # r.tracked \/ r.gIndexed # r.gTracked
       /\ envOk
    THEN [ok |-> TRUE,
          repo |-> Refresh([r EXCEPT !.tracked = r.indexed,
                                     !.gTracked = r.gIndexed,
                                     !.files = CommittedFiles(r.files),
                                     !.above = CommittedFiles(r.above),
                                     !.commits = TRUE], lf, gf)]
    ELSE [ok |-> FALSE, repo |-> r]
\* "git push -u origin main" creates refs/remotes/origin/main.
GitPushOriginMain(r, envOk) ==
    IF r.inGit /\ r.commits /\ ORIGIN \in DOMAIN r.remotes /\ envOk
    THEN [ok |-> TRUE,
          repo |-> [r EXCEPT !.tracking = r.tracking \cup {ORIGIN}, !.remoteLog = TRUE]]
    ELSE [ok |-> FALSE, repo |-> r]

\* ------------------------------------------------------------------ inspector
\* Mutation: a push is offered as soon as there is a commit.
check_repo_status_PushOnCommit(r) ==
    IF GitRevParseCode(r) # 0 THEN <<"init">>
    ELSE (IF Strip(GitRemoteV(r)) = <<>> THEN <<"add_remote">> ELSE <<>>)
         \o (IF Strip(GitStatusPorcelain(r)) # <<>> THEN <<"commit">> ELSE <<>>)
         \o (IF r.commits THEN <<"push">> ELSE <<>>)

\* Mutation: the remote probe is run before the early return.
check_repo_status_NoEarlyReturn(r) ==
    (IF GitRevParseCode(r) # 0 THEN <<"init">> ELSE <<>>)
    \o (IF Strip(GitRemoteV(r)) = <<>> THEN <<"add_remote">> ELSE <<>>)
    \o (IF Strip(GitStatusPorcelain(r)) # <<>> THEN <<"commit">> ELSE <<>>)
    \o (IF Strip(GitLogRemotes(r)) # <<>> THEN <<"push">> ELSE <<>>)

check_repo_status(r) ==
    IF GitRevParseCode(r) # 0 THEN <<"init">>
    ELSE (IF Strip(GitRemoteV(r)) = <<>> THEN <<"add_remote">> ELSE <<>>)
         \o (IF Strip(GitStatusPorcelain(r)) # <<>> THEN <<"commit">> ELSE <<>>)
         \o (IF Strip(GitLogRemotes(r)) # <<>> THEN <<"push">> ELSE <<>>)

InSeq(x, seq) == \E i \in 1..Len(seq) : seq[i] = x

L_INIT == "Initialize a new Git repository"
L_CONNECT == "Connect to a GitHub repository"
L_COMMIT == "Commit changes"
L_PUSH == "Push changes to GitHub"
L_STATUS == "Check account status"
L_RESET == "Reset credentials"
L_EXIT == "Exit"

\* Mutation: "Connect" is offered whatever the inspector said.
BuildOptions_AlwaysConnect(acts) ==
    (IF InSeq("init", acts) THEN <<L_INIT>> ELSE <<>>)
    \o <<L_CONNECT>>
    \o (IF InSeq("commit", acts) THEN <<L_COMMIT>> ELSE <<>>)
    \o (IF InSeq("push", acts) THEN <<L_PUSH>> ELSE <<>>)
    \o <<L_STATUS, L_RESET, L_EXIT>>

BuildOptions(acts) ==
    (IF InSeq("init", acts) THEN <<L_INIT>> ELSE <<>>)
    \o (IF InSeq("add_remote", acts) THEN <<L_CONNECT>> ELSE <<>>)
    \o (IF InSeq("commit", acts) THEN <<L_COMMIT>> ELSE <<>>)
    \o (IF InSeq("push", acts) THEN <<L_PUSH>> ELSE <<>>)
    \o <<L_STATUS, L_RESET, L_EXIT>>

\* The label the typed number selects.
Chosen(i) == options[i]

\* "git branch -M main" renames the current branch, born or unborn; it
\* fails when HEAD is on no branch.
GitBranchMain(r) == [ok |-> r.inGit /\ ~r.detached, repo |-> r]

\* ------------------------------------------------------------------ initial states
\* An empty directory outside every repository, and a new repository in it.
PlainDir ==
    [inGit |-> FALSE, isRepo |-> FALSE, remotes |-> NoRemotes, tracking |-> {},
     commits |-> FALSE, detached |-> FALSE, tracked |-> NoFile, indexed |-> NoFile, ignored |-> FALSE,
     gTracked |-> NoFile, gIndexed |-> NoFile, gIgnored |-> FALSE,
     files |-> {}, above |-> {}, home |-> H_APART, dirty |-> FALSE, remoteLog |-> FALSE]
WorkTree == [PlainDir EXCEPT !.inGit = TRUE, !.isRepo = TRUE]

InitialRemotes == {NoRemotes} \cup {[n \in {name} |-> OtherUrl(name)] : name \in RemoteNames}
InitialConfigTexts == {NoFile, JsonDump(STORED_LOCAL)}
InitialGlobalTexts == {NoFile, JsonDump(STORED_GLOBAL)}

\* Directories outside every repository; "git init" makes the directory a
\* work tree, with the home directory in it if that is the directory itself
\* or one below it.
InitialPlainDirs ==
    {[PlainDir EXCEPT !.ignored = ig, !.files = fs, !.home = h] :
        ig \in BOOLEAN, fs \in {{}, {P_WORK}}, h \in {H_APART, H_CWD, H_BELOW}}

\* Bare repositories and .git directories: in a repository, in no work tree.
InitialGitDirs ==
    {[PlainDir EXCEPT !.inGit = TRUE, !.remotes = rm, !.tracking = tr, !.commits = c] :
        rm \in InitialRemotes, tr \in {{}, {ORIGIN}, {UPSTREAM}}, c \in BOOLEAN}

\* Repositories in every state of their remotes and history, started at the
\* top level.  Remote-tracking refs need neither a local commit nor a
\* configured remote.
InitialHistories ==
    UNION {{[WorkTree EXCEPT !.remotes = rm, !.tracking = tr, !.commits = c,
                             !.tracked = IF c THEN t ELSE NoFile, !.indexed = i,
                             !.files = fs] :
                rm \in InitialRemotes, tr \in SUBSET RemoteNames, c \in BOOLEAN,
                fs \in SUBSET {P_WORK, P_INDEX}} :
            t \in InitialConfigTexts, i \in InitialConfigTexts}

\* Repositories with commits and a work tree in every state of its other
\* files, at the top level or in a subdirectory with changes above it.
InitialWorkTrees ==
    {[WorkTree EXCEPT !.commits = TRUE, !.files = fs, !.above = ab] :
        fs \in {{}, {P_WORK}, {P_INDEX}, {P_BOTH}, {P_BACK}, {P_BACK, P_WORK}},
        ab \in {{}, {P_WORK}, {P_INDEX}}}

\* Repositories with an ignore rule for LOCAL_CONFIG, or in the home
\* directory, or both.
InitialSpecialDirs ==
    {[WorkTree EXCEPT !.commits = TRUE, !.ignored = ig, !.files = fs, !.home = h] :
        ig \in BOOLEAN, h \in {H_APART, H_CWD}, fs \in {{}, {P_WORK}}}

\* Repositories whose work tree holds the home directory above or below the
\* current directory, GLOBAL_CONFIG committed, ignored or neither.
InitialHomeTrees ==
    UNION {{[WorkTree EXCEPT !.commits = TRUE, !.home = h, !.gTracked = g, !.gIndexed = g,
                             !.gIgnored = ig] :
                h \in {H_ABOVE, H_BELOW}, ig \in BOOLEAN} :
            g \in InitialGlobalTexts}

\* Repositories with a detached HEAD ("git checkout --detach").
InitialDetached ==
    {[WorkTree EXCEPT !.commits = TRUE, !.detached = TRUE, !.remotes = rm, !.tracking = tr] :
        rm \in InitialRemotes, tr \in {{}, {ORIGIN}}}

\* The directories a session can be started in.
InitialRepos ==
    InitialPlainDirs \cup InitialGitDirs \cup InitialHistories \cup InitialWorkTrees
    \cup InitialSpecialDirs \cup InitialHomeTrees \cup InitialDetached

InitialLocalFiles == {NoFile, JsonDump(STORED_LOCAL)}
InitialGlobalFiles == {NoFile, JsonDump(STORED_GLOBAL)}

Init ==
    /\ pc = "start"
    /\ \E r \in InitialRepos :
          /\ globalFile \in InitialGlobalFiles
          /\ localFile \in IF r.home = H_CWD THEN {globalFile} ELSE InitialLocalFiles
          /\ repo = Refresh(r, localFile, globalFile)
    /\ creds = None
    /\ config_file = "none"
    /\ gitIdentity = << <<>>, <<>> >>
    /\ actions = <<>>
    /\ options = <<>>
    /\ repo_url = <<>>
    /\ replace = "none"
    /\ failure = NoFailure
    /\ changedSinceInspect = FALSE
    /\ untouched = (repo.tracking = {})

\* ------------------------------------------------------------------ session start
\* raise typer.Exit(): the session is over.
Exit(step, kind) ==
    /\ pc' = "exited"
    /\ failure' = Fail(step, kind)

\* conversational_workflow up to use_or_switch_account: check_git_installed.
Start(gitInstalled) ==
    /\ pc = "start"
    /\ IF gitInstalled
       THEN pc' = "account" /\ failure' = failure
       ELSE Exit("start", "git_missing")
    /\ UNCHANGED <<credVars, repo, menuVars, repo_url, replace, histVars>>

\* The two "git config --global" calls that end use_or_switch_account.
Configured(c) ==
    <<GitConfigGlobal(gitIdentity[1], DictGet(c, K_username)),
      GitConfigGlobal(gitIdentity[2], DictGet(c, K_email))>>
\* One of them at least was run by the shell.
ConfigRuns(c) ==
    GitConfigRuns(DictGet(c, K_username)) \/ GitConfigRuns(DictGet(c, K_email))

\* use_or_switch_account up to ask_credentials; switch answers "Want to use a
\* different account?", asked only when credentials were found.
UseOrSwitchAccount(switch, shows) ==
    /\ pc = "account"
    /\ LET found == load_credentials(localFile, globalFile)
       IN  IF Truthy(found) /\ ~switch
           THEN /\ shows => (repo.home # H_APART /\ ConfigRuns(found))
                /\ creds' = found
                /\ gitIdentity' = Configured(found)
                /\ repo' = Refresh(HomeConfigWritten(repo, shows), localFile, globalFile)
                /\ pc' = "menu"
           ELSE /\ Truthy(found) \/ ~switch
                /\ ~shows
                /\ creds' = creds
                /\ gitIdentity' = gitIdentity
                /\ repo' = repo
                /\ pc' = "ask_creds"
    /\ UNCHANGED <<localFile, globalFile, config_file, menuVars, repo_url, replace,
                   failure, histVars>>

\* The dict ask_credentials builds, saves and returns.
AskRecord(login, email, token) == Cred(login, email, token)

\* One round of the loop of ask_credentials, validate_pat and
\* save_credentials included, and the git config calls of the caller when
\* the loop returns.  validate_pat returns the login the service reports or
\* raises typer.Exit; the service reports no empty login, so the "Let's try
\* again" line after the if is never reached.
AskCredentials(username, email, token, netOk, toLocal, shows) ==
    /\ pc = "ask_creds"
    /\ LET validated_username == GitHubLoginOf(token)
           data == AskRecord(validated_username, email, token)
       IN  IF ~netOk
           THEN ~shows /\ Exit("auth", "timeout") /\ UNCHANGED <<credVars, repo>>
           ELSE IF validated_username = <<>>
           THEN ~shows /\ Exit("auth", "http401") /\ UNCHANGED <<credVars, repo>>
           ELSE /\ shows => (repo.home # H_APART /\ ConfigRuns(data))
                /\ localFile' = SavedLocal(localFile, data, toLocal, repo.home = H_CWD)
                /\ globalFile' = SavedGlobal(globalFile, data, toLocal, repo.home = H_CWD)
                /\ repo' = Refresh(HomeConfigWritten(repo, shows),
                                   SavedLocal(localFile, data, toLocal, repo.home = H_CWD),
                                   SavedGlobal(globalFile, data, toLocal, repo.home = H_CWD))
                /\ config_file' = IF toLocal THEN "local" ELSE "global"
                /\ creds' = data
                /\ gitIdentity' = Configured(data)
                /\ pc' = "menu"
                /\ failure' = failure
    /\ UNCHANGED <<menuVars, repo_url, replace, histVars>>

\* ------------------------------------------------------------------ menu
\* Top of the while loop: check_repo_status, the options, the menu printed.
ShowMenu ==
    /\ pc = "menu"
    /\ actions' = check_repo_status(repo)
    /\ options' = BuildOptions(check_repo_status(repo))
    /\ changedSinceInspect' = FALSE
    /\ pc' = "choose"
    /\ UNCHANGED <<credVars, repo, repo_url, replace, failure, untouched>>

Offered(label) == \E i \in 1..Len(options) : Chosen(i) = label

\* "Initialize a new Git repository": run_cmd("git init").
ChooseInit(envOk) ==
    /\ pc = "choose"
    /\ Offered(L_INIT)
    /\ LET res == GitInit(repo, envOk)
       IN  /\ repo' = Refresh(res.repo, localFile, globalFile)
           /\ IF res.ok THEN pc' = "again" /\ failure' = failure
              ELSE Exit("init", "git")
    /\ UNCHANGED <<credVars, menuVars, repo_url, replace, histVars>>

\* "Connect to a GitHub repository", answer yes to "Want to create a new
\* GitHub repo?": the name and visibility prompts follow.
ChooseConnectNew ==
    /\ pc = "choose"
    /\ Offered(L_CONNECT)
    /\ pc' = "create_repo"
    /\ UNCHANGED <<credVars, repo, menuVars, repo_url, replace, failure, histVars>>

\* ... answer no: the URL is asked for and add_remote is called.
ChooseConnectExisting(url) ==
    /\ pc = "choose"
    /\ Offered(L_CONNECT)
    /\ repo_url' = url
    /\ pc' = "add_remote"
    /\ UNCHANGED <<credVars, repo, menuVars, replace, failure, histVars>>

\* create_github_repo(creds["username"], creds["token"], repo_name, private)
\* with safe_github_post.  Subscripting None raises TypeError, which nothing
\* catches.  status is the service's answer, 0 for a timeout.
CreateGithubRepo(repo_name, private, status) ==
    /\ pc = "create_repo"
    /\ IF creds = None
       THEN /\ pc' = "crashed"
            /\ failure' = Fail("connect", "TypeError")
            /\ repo_url' = repo_url
       ELSE LET username == DictGet(creds, K_username)
                token == DictGet(creds, K_token)
                answer == IF status = 0 THEN 0
                          ELSE IF GitHubLoginOf(token) = <<>> THEN 401
                          ELSE status
            IN  IF answer = 0
                THEN Exit("connect", "timeout") /\ repo_url' = repo_url
                ELSE IF answer >= 400
                THEN Exit("connect", "http") /\ repo_url' = repo_url
                ELSE IF answer = 201
                THEN /\ repo_url' = GITHUB_PREFIX \o username \o <<"/">> \o repo_name
                                    \o GIT_SUFFIX
                     /\ pc' = "add_remote"
                     /\ failure' = failure
                ELSE Exit("connect", "status") /\ repo_url' = repo_url
    /\ UNCHANGED <<credVars, repo, menuVars, replace, histVars>>

\* Mutation: the old origin is removed without waiting for the answer.
AddRemoteTail_RemoveAlways(answer) ==
    LET removed == GitRemoteRemoveOrigin(repo)
        added == GitRemoteAddOrigin(removed.repo, repo_url)
    IN  /\ repo' = added.repo
        /\ IF removed.ok /\ added.ok THEN pc' = "again" /\ failure' = failure
           ELSE Exit("connect", "git")

\* add_remote after the probe found "origin": the confirmation, the removal
\* if confirmed, and "git remote add origin" in either case.
AddRemoteTail(answer) ==
    LET removed == IF answer THEN GitRemoteRemoveOrigin(repo) ELSE [ok |-> TRUE, repo |-> repo]
        added == IF removed.ok THEN GitRemoteAddOrigin(removed.repo, repo_url)
                 ELSE [ok |-> FALSE, repo |-> removed.repo]
    IN  /\ repo' = added.repo
        /\ IF added.ok THEN pc' = "again" /\ failure' = failure
           ELSE Exit("connect", "git")

\* add_remote up to the confirmation: the probe and the substring test.
AddRemote ==
    /\ pc = "add_remote"
    /\ replace' = "none"
    /\ IF Contains(ORIGIN, Strip(GitRemoteV(repo)))
       THEN /\ pc' = "confirm_replace"
            /\ UNCHANGED <<repo, failure>>
       ELSE LET added == GitRemoteAddOrigin(repo, repo_url)
            IN  /\ repo' = added.repo
                /\ IF added.ok THEN pc' = "again" /\ failure' = failure
                   ELSE Exit("connect", "git")
    /\ UNCHANGED <<credVars, menuVars, repo_url, histVars>>

ConfirmReplace(answer) ==
    /\ pc = "confirm_replace"
    /\ replace' = IF answer THEN "yes" ELSE "no"
    /\ AddRemoteTail(answer)
    /\ UNCHANGED <<credVars, menuVars, repo_url, histVars>>

\* "Commit changes": safe_commit up to its first prompt.  A clean tree is
\* reported and the function returns.
ChooseCommit ==
    /\ pc = "choose"
    /\ Offered(L_COMMIT)
    /\ pc' = IF Strip(GitStatusPorcelain(repo)) = <<>> THEN "again" ELSE "confirm_commit"
    /\ UNCHANGED <<credVars, repo, menuVars, repo_url, replace, failure, histVars>>

\* "Do you want to stage & commit them?": on yes "git add ." runs and the
\* message is asked for.
ConfirmCommit(answer, envOk) ==
    /\ pc = "confirm_commit"
    /\ IF ~answer
       THEN /\ pc' = "again"
            /\ UNCHANGED <<repo, failure>>
       ELSE LET res == GitAddAll(repo, localFile, globalFile, envOk)
            IN  /\ repo' = res.repo
                /\ IF res.ok THEN pc' = "commit_msg" /\ failure' = failure
                   ELSE Exit("commit", "git")
    /\ UNCHANGED <<credVars, menuVars, repo_url, replace, histVars>>

\* The message is entered and "git commit" runs.
CommitMessage(envOk) ==
    /\ pc = "commit_msg"
    /\ LET res == GitCommit(repo, localFile, globalFile, envOk)
       IN  /\ repo' = res.repo
           /\ IF res.ok THEN pc' = "again" /\ failure' = failure
              ELSE Exit("commit", "git")
    /\ UNCHANGED <<credVars, menuVars, repo_url, replace, histVars>>

\* "Push changes to GitHub": push_to_github.
ChoosePush(envOk) ==
    /\ pc = "choose"
    /\ Offered(L_PUSH)
    /\ LET renamed == GitBranchMain(repo)
           pushed == IF renamed.ok THEN GitPushOriginMain(renamed.repo, envOk)
                     ELSE [ok |-> FALSE, repo |-> renamed.repo]
       IN  /\ repo' = pushed.repo
           /\ IF pushed.ok THEN pc' = "again" /\ failure' = failure
              ELSE Exit("push", "git")
    /\ UNCHANGED <<credVars, menuVars, repo_url, replace, histVars>>

\* "Check account status": creds is reassigned from the files.
ChooseStatus ==
    /\ pc = "choose"
    /\ Offered(L_STATUS)
    /\ creds' = load_credentials(localFile, globalFile)
    /\ pc' = "again"
    /\ UNCHANGED <<localFile, globalFile, config_file, gitIdentity, repo, menuVars,
                   repo_url, replace, failure, histVars>>

\* Mutation: the project file is removed first.
ResetFiles_LocalFirst(lf, gf, home) ==
    IF Exists(lf) THEN <<NoFile, IF home THEN NoFile ELSE gf>>
    ELSE IF Exists(gf) THEN <<lf, NoFile>>
    ELSE <<lf, gf>>

\* The files <<LOCAL, GLOBAL>> after the "Reset credentials" branch: GLOBAL
\* is removed if it exists, otherwise LOCAL.  In the home directory the two
\* are one file.
ResetFiles(lf, gf, home) ==
    IF Exists(gf) THEN <<IF home THEN NoFile ELSE lf, NoFile>>
    ELSE IF Exists(lf) THEN <<NoFile, gf>>
    ELSE <<lf, gf>>

\* "Reset credentials".
ChooseReset ==
    /\ pc = "choose"
    /\ Offered(L_RESET)
    /\ localFile' = ResetFiles(localFile, globalFile, repo.home = H_CWD)[1]
    /\ globalFile' = ResetFiles(localFile, globalFile, repo.home = H_CWD)[2]
    /\ repo' = Refresh(repo, ResetFiles(localFile, globalFile, repo.home = H_CWD)[1],
                             ResetFiles(localFile, globalFile, repo.home = H_CWD)[2])
    /\ pc' = "reset_done"
    /\ UNCHANGED <<creds, config_file, gitIdentity, menuVars, repo_url, replace,
                   failure, histVars>>

\* "Exit": break.
ChooseExit ==
    /\ pc = "choose"
    /\ Offered(L_EXIT)
    /\ pc' = "done"
    /\ UNCHANGED <<credVars, repo, menuVars, repo_url, replace, failure, histVars>>

\* "Want to do something else?" at the bottom of the loop.
Again(more) ==
    /\ pc \in {"again", "reset_done"}
    /\ pc' = IF more THEN "menu" ELSE "done"
    /\ UNCHANGED <<credVars, repo, menuVars, repo_url, replace, failure, histVars>>

\* ------------------------------------------------------------------ environment
\* While the session waits at a prompt or for the network the user can
\* work in the directory from another terminal; check_repo_status is rerun
\* each iteration for that reason.
Waiting ==
    pc \in {"account", "ask_creds", "choose", "create_repo", "add_remote", "confirm_replace",
            "confirm_commit", "commit_msg", "again", "reset_done"}

External(r) ==
    /\ Waiting
    /\ repo' = r
    /\ changedSinceInspect' = TRUE
    /\ untouched' = FALSE
    /\ UNCHANGED <<pc, credVars, menuVars, repo_url, replace, failure>>

\* The remote the user adds and fetches meanwhile: the one add_remote
\* probes for.
ExternalRemotes == {ORIGIN}

\* A file is created or edited.
EnvEdit ==
    /\ P_WORK \notin repo.files
    /\ External(Refresh([repo EXCEPT !.files = repo.files \cup {P_WORK}], localFile, globalFile))

\* git remote add <name> <url> typed by the user.
EnvRemoteAdd(name) ==
    /\ repo.inGit
    /\ name \notin DOMAIN repo.remotes
    /\ External([repo EXCEPT !.remotes =
                    [n \in DOMAIN repo.remotes \cup {name} |->
                        IF n = name THEN OtherUrl(name) ELSE repo.remotes[n]]])

\* git fetch <name> from a remote that has commits.
EnvFetch(name) ==
    /\ repo.inGit
    /\ name \in DOMAIN repo.remotes
    /\ name \notin repo.tracking
    /\ External(Refresh([repo EXCEPT !.tracking = repo.tracking \cup {name}],
                        localFile, globalFile))

\* git add -A && git commit typed by the user.
EnvCommit ==
    LET added == GitAddAll(repo, localFile, globalFile, TRUE).repo
        all == [added EXCEPT !.above = AddedFiles(added.above),
                             !.gIndexed = IF added.home = H_ABOVE
                                          THEN AddedText(added.gIndexed, added.gIgnored,
                                                         globalFile)
                                          ELSE added.gIndexed]
        committed == GitCommit(all, localFile, globalFile, TRUE)
    IN  /\ repo.isRepo
        /\ committed.ok
        /\ External(committed.repo)

\* ------------------------------------------------------------------ specification
\* The steps of the program.
Session ==
    \/ \E gitInstalled \in BOOLEAN : Start(gitInstalled)
    \/ \E switch \in BOOLEAN, shows \in BOOLEAN : UseOrSwitchAccount(switch, shows)
    \/ \E username \in TypedUsernames, email \in Emails, token \in Tokens,
          netOk \in BOOLEAN, toLocal \in BOOLEAN, shows \in BOOLEAN :
            AskCredentials(username, email, token, netOk, toLocal, shows)
    \/ ShowMenu
    \/ \E envOk \in BOOLEAN : ChooseInit(envOk)
    \/ ChooseConnectNew
    \/ \E url \in ExistingUrls : ChooseConnectExisting(url)
    \/ \E repo_name \in RepoNames, private \in BOOLEAN, status \in {0, 201, 202, 422} :
            CreateGithubRepo(repo_name, private, status)
    \/ AddRemote
    \/ \E answer \in BOOLEAN : ConfirmReplace(answer)
    \/ ChooseCommit
    \/ \E answer \in BOOLEAN, envOk \in BOOLEAN : ConfirmCommit(answer, envOk)
    \/ \E envOk \in BOOLEAN : CommitMessage(envOk)
    \/ \E envOk \in BOOLEAN : ChoosePush(envOk)
    \/ ChooseStatus
    \/ ChooseReset
    \/ ChooseExit
    \/ \E more \in BOOLEAN : Again(more)

\* The steps of the user in another terminal.
Elsewhere ==
    \/ EnvEdit
    \/ \E name \in ExternalRemotes : EnvRemoteAdd(name)
    \/ \E name \in ExternalRemotes : EnvFetch(name)
    \/ EnvCommit

Next == Session \/ Elsewhere

Spec == Init /\ [][Next]_vars

\* ------------------------------------------------------------------ properties
\* The two fields that cache what the probes print are up to date.
ProbesUpToDate == repo = Refresh(repo, localFile, globalFile)
\* In the home directory LOCAL and GLOBAL are one file.
HomeOneFile == repo.home = H_CWD => localFile = globalFile
\* A work tree is in a repository; a detached HEAD is on a commit.
WorkTreeInGit == (repo.isRepo => repo.inGit) /\ (repo.detached => repo.commits)

Load == load_credentials(localFile, globalFile)
ActionSet == {actions[i] : i \in 1..Len(actions)}
MenuActionSteps == {"init", "connect", "commit", "push"}

\* C1: a menu action in which a git command exits non-zero, or the
\* repository-creation call times out or is answered with an error status,
\* is aborted and the session goes on (the menu is shown again); the
\* session does not terminate.
C1_FailedActionReturnsToMenu ==
    (failure.step \in MenuActionSteps /\ failure.kind \in {"git", "timeout", "http"})
        => pc \in {"again", "menu", "choose"}

\* C2: when token validation is answered with HTTP 401, neither credential
\* file is written and the credentials are asked for again; the session
\* does not end.
C2_Rejected401PromptsAgain ==
    [][(failure # Fail("auth", "http401") /\ failure' = Fail("auth", "http401"))
        => (localFile' = localFile /\ globalFile' = globalFile /\ pc' = "ask_creds")]_vars

\* C3: saving record R to scope S and loading returns exactly R when S is
\* LOCAL, or S is GLOBAL and there is no LOCAL file; whenever both files
\* exist, load returns the LOCAL record.  (The second part is looked at in
\* the first step of a session and whenever a file changes, which covers
\* every state.)
C3_SaveLoadRoundTrip ==
    [][/\ (pc = "ask_creds" /\ pc' = "menu" /\ (config_file' = "local" \/ ~Exists(localFile)))
            => load_credentials(localFile', globalFile') = creds'
       /\ (/\ pc = "start" \/ localFile' # localFile \/ globalFile' # globalFile
           /\ Exists(localFile') /\ Exists(globalFile'))
            => load_credentials(localFile', globalFile') = JsonLoad(localFile')]_vars

\* C3 witness: a record with a quote in its e-mail was saved to LOCAL while
\* a GLOBAL file exists.
C3_Witness ==
    /\ pc = "menu"
    /\ config_file = "local"
    /\ Exists(globalFile)
    /\ creds # None
    /\ DictGet(creds, K_email) = <<QUOTE>>

\* C4 as stated: check_repo_status returns exactly {init} when the
\* directory is not a work tree; in a work tree it returns add_remote iff no
\* remote is configured, commit iff the tree is dirty, push iff
\* remote-tracking history exists, and never init.
C4_InspectExact ==
    (pc = "choose" /\ ~changedSinceInspect) =>
        IF ~repo.isRepo THEN ActionSet = {"init"} /\ Len(actions) = 1
        ELSE /\ ActionSet \subseteq {"add_remote", "commit", "push"}
             /\ Len(actions) = Cardinality(ActionSet)
             /\ ("add_remote" \in ActionSet) <=> (DOMAIN repo.remotes = {})
             /\ ("commit" \in ActionSet) <=> repo.dirty
             /\ ("push" \in ActionSet) <=> repo.remoteLog

\* C4 amended: check_repo_status returns exactly {init} when the rev-parse
\* probe exits non-zero, that is outside every repository; anywhere in a
\* repository (a bare repository and a .git directory included) it returns
\* add_remote iff no remote is configured, commit iff the directory is in a
\* work tree and the tree is dirty, push iff remote-tracking history
\* exists, and never init.
C4_InspectByExitStatus ==
    (pc = "choose" /\ ~changedSinceInspect) =>
        IF ~repo.inGit THEN ActionSet = {"init"} /\ Len(actions) = 1
        ELSE /\ ActionSet \subseteq {"add_remote", "commit", "push"}
             /\ Len(actions) = Cardinality(ActionSet)
             /\ ("add_remote" \in ActionSet) <=> (DOMAIN repo.remotes = {})
             /\ ("commit" \in ActionSet) <=> (repo.isRepo /\ repo.dirty)
             /\ ("push" \in ActionSet) <=> repo.remoteLog

\* C4 witness: a bare repository without remote, with remote-tracking refs,
\* was inspected: add_remote and push, neither init nor commit.
C4_Witness ==
    /\ pc = "choose"
    /\ ~changedSinceInspect
    /\ repo.inGit /\ ~repo.isRepo
    /\ actions = <<"add_remote", "push">>

\* C5: when add_remote finds a remote "origin" and the user declines to
\* replace it, the URL of origin is the same after the action as before.
C5_DeclinedKeepsOriginUrl ==
    [][(pc = "confirm_replace" /\ replace' = "no" /\ ORIGIN \in DOMAIN repo.remotes)
        => (ORIGIN \in DOMAIN repo'.remotes /\ repo'.remotes[ORIGIN] = repo.remotes[ORIGIN])]_vars

\* C5 witness: the replacement was declined with origin present (so that
\* "git remote add origin" failed).
C5_Witness ==
    /\ replace = "no"
    /\ failure = Fail("connect", "git")
    /\ ORIGIN \in DOMAIN repo.remotes
    /\ repo.remotes[ORIGIN] # repo_url

\* C6 as stated: after "Reset credentials", load returns absent whichever
\* files existed before.
C6_ResetLeavesNothing == pc = "reset_done" => Load = None

\* C6 amended: after "Reset credentials", load returns absent when at most
\* one credential file existed before (LOCAL and GLOBAL are one file in the
\* home directory); when two files existed only the GLOBAL file is deleted
\* and load returns the LOCAL record.
C6_ResetByScope ==
    [][(pc = "choose" /\ pc' = "reset_done") =>
        IF Exists(localFile) /\ Exists(globalFile) /\ repo.home # H_CWD
        THEN /\ ~Exists(globalFile')
             /\ load_credentials(localFile', globalFile') = JsonLoad(localFile)
        ELSE load_credentials(localFile', globalFile') = None]_vars

\* C6 witness: the reset ran with both files present (LOCAL is left).
C6_Witness == pc = "reset_done" /\ Exists(localFile) /\ ~Exists(globalFile)

\* C7: every credential record in the LOCAL or GLOBAL file has a non-empty
\* username, e-mail and token.
C7_PersistedFieldsNonEmpty ==
    \A f \in {localFile, globalFile} :
        Exists(f) => \A k \in {K_username, K_email, K_token} : DictGet(JsonLoad(f), k) # <<>>

\* C8: in a session that starts without remote-tracking history and in
\* which only the tool changes the directory, the menu never offers the
\* push.
C8_PushNeverOffered ==
    (untouched /\ pc = "choose") => ~Offered(L_PUSH)

\* C8 witness: the tool has connected the repository it created and there
\* are commits, and the menu still does not offer the push.
C8_Witness ==
    /\ pc = "choose"
    /\ untouched
    /\ repo.commits
    /\ ~repo.dirty
    /\ ORIGIN \in DOMAIN repo.remotes
    /\ repo.remotes[ORIGIN] = repo_url
    /\ Contains(GITHUB_PREFIX, repo_url)
    /\ ~Offered(L_PUSH)

\* C9: whenever connect/create-new is about to pass creds to
\* create_github_repo, creds is present.
C9_CredsPresentAtCreate == pc = "create_repo" => creds # None

\* C10: connect is entered only when check_repo_status reported
\* add_remote, and unless the repository changed since that inspection
\* add_remote does not find "origin": the replace question, the only way
\* to "git remote remove origin", is not asked.
C10_NoReplaceWithoutChange ==
    /\ pc \in {"create_repo", "add_remote", "confirm_replace"} => InSeq("add_remote", actions)
    /\ pc = "confirm_replace" => changedSinceInspect

\* C10 witness: connect added origin with no external change since the
\* inspection, without asking.
C10_Witness ==
    /\ pc = "again"
    /\ ~changedSinceInspect
    /\ InSeq("add_remote", actions)
    /\ replace = "none"
    /\ ORIGIN \in DOMAIN repo.remotes
    /\ repo.remotes[ORIGIN] = repo_url

====
